---- MODULE Spec2Model ----
\* Verification model of sync_image: the batch image copy and its
\* command-line entry (sync_image.py), the image reference parser and the
\* tag and image searches (image_search.py), and the web application that
\* wraps a batch run in a task, streams its log and keeps the history of
\* target repositories (app.py).
\*
\* A Python string is a sequence of one-character strings, so that split(),
\* "in" and concatenation are computed the way the code computes them.
EXTENDS Integers, Sequences, FiniteSets, TLC

VARIABLES
    \* ---- one sync_images run, started by run_sync_task -------------------
    images,        \* argument: the batch, a sequence of image strings
    repo,          \* argument: the target repository
    arch,          \* argument: the architecture name
    docker_auth,   \* argument: <<>> for None, or <<{registry, username, password}>>
    use_local,     \* argument: skip the pull of locally present images
    task_id,       \* argument of run_sync_task: the id of this run's task
    run,           \* history: "first", or "rerun" for a repeated batch
    pc,            \* position of the worker
    i,             \* index of the image the for-loop is at
    platform,      \* arch_map[arch], once resolved
    success_list,  \* sync_images local
    fail_list,     \* sync_images local
    all_messages,  \* sync_images local: the returned transcript
    cmds,          \* history: every external command invoked, in order
    attempts,      \* history: index of every sync_single_image call, in order
    results,       \* history: what each sync_single_image call returned
    tasks,         \* the task registry; tasks[task_id] is this run's entry
    output_queue,  \* the queue.Queue the worker writes to
    \* ---- pure functions applied to one input ----------------------------
    image_name,    \* the input string
    fn_result,     \* what the applied function returned
    \* ---- one call of a search operation of image_search.py -------------
    s_op,          \* the operation called
    s_image,       \* argument: the image name, or the query
    s_registry,    \* argument: <<>> for None, or the registry string
    s_limit,       \* argument: limit
    s_auth,        \* argument: <<>> for None, or <<(username, password)>>
    s_pc,          \* position of the call
    s_call,        \* the arguments of the function the call is in
    s_requests,    \* history: every requests.get with its response, in order
    s_tags,        \* search_docker_hub_tags local: tags
    s_page,        \* search_docker_hub_tags local: page
    s_result,      \* what the operation returned
    \* ---- the command-line entry ----------------------------------------
    exit_code,     \* <<>> while the process runs, then <<its exit code>>
    \* ---- app.py: the repository history --------------------------------
    history_file,  \* repo_history.json: missing, a list, or unreadable
    h_prev,        \* history: the list before the last save call
    h_call,        \* history: <<>> or <<the last save call>>
    h_last,        \* history: <<>> or <<the last non-empty repo passed>>
    n_fresh,       \* history: how many distinct repositories reached the file
    \* ---- app.py: sync requests handled by concurrent handler threads ---
    task_counter,  \* the global counter task ids are made from
    request,       \* per request: the posted images and repo
    sync_pc,       \* per request: position of its handler
    counter_read,  \* per request: the counter value its += has loaded
    req_task_id,   \* per request: the handler's local task_id, 0 before
    queues,        \* per request: the handler's local output_queue
    thread,        \* per request: position of its worker thread
    written,       \* history, per request: the lines its worker put
    returned,      \* history, per request: <<>> or <<how sync_images ended>>
    stream,        \* history, per request: the events generate() yielded
    statuses,      \* history, per task id: every status stored, in order
    effects        \* history, per request: the shared state it has touched

argVars == <<images, repo, arch, docker_auth, use_local, task_id, run>>
syncVars == <<argVars, pc, i, platform,
              success_list, fail_list, all_messages, cmds, attempts, results,
              tasks, output_queue>>
fnVars == <<image_name, fn_result>>
searchVars == <<s_op, s_image, s_registry, s_limit, s_auth, s_pc, s_call,
                s_requests, s_tags, s_page, s_result>>
cliVars == <<exit_code>>
histVars == <<history_file, h_prev, h_call, h_last, n_fresh>>
appVars == <<task_counter, request, sync_pc, counter_read, req_task_id,
             queues, thread, written, returned, stream, statuses, effects>>
vars == <<syncVars, fnVars, searchVars, cliVars, histVars, appVars>>
\* what a sync run, an applied function, a search, a save, the command line
\* and a request handler leave alone
offRun == <<fnVars, searchVars, cliVars, histVars, appVars>>
offFn == <<syncVars, searchVars, cliVars, histVars, appVars>>
offSearch == <<syncVars, fnVars, cliVars, histVars, appVars>>
offHist == <<syncVars, fnVars, searchVars, cliVars, appVars>>
offCli == <<fnVars, searchVars, histVars, appVars>>
offApp == <<argVars, pc, i, platform, success_list, fail_list, all_messages,
            cmds, attempts, results, output_queue, fnVars, searchVars,
            cliVars, h_prev, h_call, h_last, n_fresh>>

------------------------------------------------------------------------------
\* Bounds of the model

\* longest batch handed to sync_images without a credential
MaxImages == 3
\* longest batch handed to sync_images together with a credential
MaxAuthImages == 2
\* longest batch that is synced a second time
MaxRerunImages == 2
\* longest input string enumerated for the pure functions
MaxLen == 5

------------------------------------------------------------------------------
\* Python string primitives

None == "None"
\* the end marker run_sync_task puts on the queue (a None among the lines)
EndMarker == [t |-> "None"]

\* c in s
Contains(s, c) == \E k \in 1..Len(s) : s[k] = c

\* s.find(c) + 1: position of the first c, 0 when there is none
IndexOf(s, c) ==
    IF Contains(s, c)
    THEN CHOOSE k \in 1..Len(s) : s[k] = c /\ \A j \in 1..(k - 1) : s[j] # c
    ELSE 0

RECURSIVE Split(_, _)
\* s.split(c): always at least one segment, empty segments are kept
Split(s, c) ==
    LET k == IndexOf(s, c)
    IN  IF k = 0 THEN <<s>>
        ELSE <<SubSeq(s, 1, k - 1)>> \o Split(SubSeq(s, k + 1, Len(s)), c)

RECURSIVE Join(_, _)
\* c.join(parts)
Join(parts, c) ==
    IF Len(parts) = 0 THEN <<>>
    ELSE IF Len(parts) = 1 THEN parts[1]
    ELSE parts[1] \o <<c>> \o Join(Tail(parts), c)

RECURSIVE Strip(_)
\* s.strip(): leading and trailing blanks removed
Strip(s) ==
    IF Len(s) = 0 THEN s
    ELSE IF s[1] = " " THEN Strip(Tail(s))
    ELSE IF s[Len(s)] = " " THEN Strip(SubSeq(s, 1, Len(s) - 1))
    ELSE s

\* parts[-1]
Last(parts) == parts[Len(parts)]

\* string literals of the program
DOCKER_IO == <<"d","o","c","k","e","r",".","i","o">>
INDEX_DOCKER_IO == <<"i","n","d","e","x",".">> \o DOCKER_IO
REGISTRY_1_DOCKER_IO == <<"r","e","g","i","s","t","r","y","-","1",".">> \o DOCKER_IO
LOCALHOST == <<"l","o","c","a","l","h","o","s","t">>
LIBRARY == <<"l","i","b","r","a","r","y">>

------------------------------------------------------------------------------
\* image_search.parse_image_name

parse_image_name(name) ==
    LET stripped == IF Contains(name, ":") THEN Split(name, ":")[1] ELSE name
        parts == Split(stripped, "/")
    IN  IF Contains(stripped, "/")
        THEN IF Contains(parts[1], ".") \/ Contains(parts[1], ":")
             THEN IF Len(parts) >= 3
                  THEN [registry |-> parts[1], namespace |-> parts[2],
                        image |-> Join(SubSeq(parts, 3, Len(parts)), "/")]
                  ELSE [registry |-> parts[1], namespace |-> LIBRARY,
                        image |-> parts[2]]
             ELSE IF Len(parts) = 2
                  THEN [registry |-> DOCKER_IO, namespace |-> parts[1],
                        image |-> parts[2]]
                  ELSE [registry |-> DOCKER_IO, namespace |-> LIBRARY,
                        image |-> parts[1]]
        ELSE [registry |-> DOCKER_IO, namespace |-> LIBRARY, image |-> stripped]

\* sync_image.get_image_registry
get_image_registry(full_image) ==
    LET name == IF Contains(full_image, "@")
                THEN SubSeq(full_image, 1, IndexOf(full_image, "@") - 1)
                ELSE full_image
        parts == Split(name, "/")
        first == parts[1]
    IN  IF Len(parts) = 1 THEN DOCKER_IO
        ELSE IF first = LOCALHOST \/ Contains(first, ".") \/ Contains(first, ":")
             THEN first
             ELSE DOCKER_IO

\* the format check dropped
format_ok_none(full_image) == TRUE

\* sync_single_image: the format check
format_ok(full_image) == Contains(full_image, ":")

\* sync_single_image: target_full, for an image that passed the format check
\* (the format check guarantees the second segment; without one the tag is
\* taken as empty here, where Python would raise)
target_full(full_image, target_repo) ==
    LET image_part == Split(full_image, ":")[1]
        tag_part == IF Len(Split(full_image, ":")) >= 2
                    THEN Split(full_image, ":")[2] ELSE <<>>
        short_name == Last(Split(image_part, "/"))
    IN  target_repo \o <<"/">> \o short_name \o <<":">> \o tag_part

------------------------------------------------------------------------------
\* Inputs of the model

\* "a:1": an image of Docker Hub, image:tag
IMG_PLAIN == <<"a", ":", "1">>
\* "b": no tag separator
IMG_NOTAG == <<"b">>
\* "h:5/n/c:2": registry host with a port
IMG_PORT == <<"h", ":", "5", "/", "n", "/", "c", ":", "2">>
\* "x.y/c:1": registry host with a dot
IMG_DOT == <<"x", ".", "y", "/", "c", ":", "1">>
\* "index.docker.io/c:1": a Docker Hub alias written as the host
IMG_INDEX == INDEX_DOCKER_IO \o <<"/", "c", ":", "1">>

BatchImages == {IMG_PLAIN, IMG_NOTAG}
AuthImages == {IMG_PLAIN, IMG_PORT, IMG_DOT, IMG_INDEX}
TargetRepo == <<"r">>
Archs == {"arm", "amd64", "x86"}
AuthRegistries == {<<>>, DOCKER_IO, INDEX_DOCKER_IO, REGISTRY_1_DOCKER_IO,
                   <<"x", ".", "y">>, <<" ">> \o DOCKER_IO}
\* passwords: characters that occur in no image name, registry or user name
Secrets == {<<"#">>, <<"%">>}
\* username and password: both given, or one of them missing
Logins == {<<<<"u">>, <<"#">>>>, <<<<>>, <<"#">>>>, <<<<"u">>, <<>>>>}
Credentials == {[registry |-> r, username |-> l[1], password |-> l[2]] :
                r \in AuthRegistries, l \in Logins}

\* all sequences over S of length at most n
Batches(S, n) == UNION {[1..k -> S] : k \in 0..n}

RunExits == {"zero", "nonzero"}
InspectOutcomes == {"zero", "nonzero", "raise"}
LoginOutcomes == {"zero", "nonzero", "timeout", "error"}
\* what docker login printed (stdout and stderr merged): nothing, or one line
LoginAnswers == {<<>>, <<"d","e","n","i","e","d">>}
\* str(e) of an exception raised while starting or talking to docker login
LOGIN_ERROR_TEXT == <<"E","r","r","n","o">>

------------------------------------------------------------------------------
\* sync_image.sync_images, started by app.run_sync_task

\* arch_map with an entry for one more architecture
arch_map_extended ==
    [arm |-> "linux/arm64", amd64 |-> "linux/amd64", x86 |-> "linux/amd64"]

arch_map == [arm |-> "linux/arm64", amd64 |-> "linux/amd64"]

dockerhub_aliases == {DOCKER_IO, INDEX_DOCKER_IO, REGISTRY_1_DOCKER_IO}

\* docker_auth.get("registry") or "docker.io", stripped
auth_registry_of(auth) ==
    Strip(IF auth.registry = <<>> THEN DOCKER_IO ELSE auth.registry)

registries_in_images(imgs) == {get_image_registry(imgs[k]) : k \in 1..Len(imgs)}

\* sync_images: the login decision
should_login(auth, imgs) ==
    \/ auth_registry_of(auth) \in registries_in_images(imgs)
    \/ /\ auth_registry_of(auth) \in dockerhub_aliases
       /\ DOCKER_IO \in registries_in_images(imgs)

\* output_callback of run_sync_task: the line goes to the queue and to the
\* task's stored output
callback(q, lines) == IF task_id \in DOMAIN tasks THEN q \o lines ELSE q
stored(t, lines) ==
    IF task_id \in DOMAIN t
    THEN [t EXCEPT ![task_id].output = @ \o lines]
    ELSE t

\* run_command: the lines the process prints, one per command in this model
command_output(cmd, k) == <<[t |-> "out", cmd |-> cmd, img |-> k]>>

\* the image the loop is at
source_full == images[i]

\* for img in images: the next iteration
next_image(k) == k + 1

\* run_command: success is exit code zero
step_ok(rc) == rc = "zero"

\* image_exists_locally with "except: return True"
exists_locally_lenient(outcome) == outcome # "nonzero"

\* image_exists_locally: True only for exit code zero, False for any other
\* exit code and for any exception
exists_locally(outcome) == outcome = "zero"

\* sync_single_image: where it goes after the format check
first_step(ok, local) ==
    IF ~ok THEN "failed" ELSE IF local THEN "inspect" ELSE "pull"

\* sync_single_image with the cache hit ignored
after_inspect_always_pull(present) == "pull"

\* sync_single_image: where it goes after the inspection
after_inspect(present) == IF present THEN "tag" ELSE "pull"

\* sync_single_image with the exit code of the pull ignored
after_step_unchecked_pull(step, ok) ==
    IF step = "pull" THEN "tag"
    ELSE IF ~ok THEN "failed"
    ELSE IF step = "tag" THEN "push" ELSE "succeeded"

\* sync_single_image: where it goes after the pull, tag or push command
after_step(step, ok) ==
    IF ~ok THEN "failed"
    ELSE CASE step = "pull" -> "tag"
           [] step = "tag" -> "push"
           [] step = "push" -> "succeeded"

\* sync_images with a failed login treated as fatal
after_login_fatal(outcome) == IF outcome = "zero" THEN "for_img" ELSE "raised"

\* sync_images: where it goes after docker_login returned
after_login(outcome) == "for_img"

\* run_sync_task registers the task
RunSyncTaskBegin ==
    /\ pc = "task_start"
    /\ tasks' = [k \in DOMAIN tasks \cup {task_id} |->
                   IF k = task_id
                   THEN [status |-> "running", output |-> <<>>,
                         success_list |-> <<>>, fail_list |-> <<>>]
                   ELSE tasks[k]]
    /\ pc' = "sync_images"
    /\ UNCHANGED <<argVars, i, platform,
                   success_list, fail_list, all_messages, cmds, attempts,
                   results, output_queue, offRun>>

\* sync_images up to the login call: platform lookup, first log line, login
\* decision
SyncImagesBegin ==
    /\ pc = "sync_images"
    /\ IF arch \notin DOMAIN arch_map
       THEN /\ pc' = "raised"
            /\ UNCHANGED <<platform, all_messages, output_queue, tasks>>
       ELSE LET line == <<[t |-> "start", platform |-> arch_map[arch]]>>
            IN  /\ platform' = arch_map[arch]
                /\ all_messages' = all_messages \o line
                /\ output_queue' = callback(output_queue, line)
                /\ tasks' = stored(tasks, line)
                /\ pc' = IF /\ docker_auth # <<>>
                            /\ should_login(docker_auth[1], images)
                            /\ docker_auth[1].username # <<>>
                            /\ docker_auth[1].password # <<>>
                         THEN "docker_login" ELSE "for_img"
    /\ UNCHANGED <<argVars, i,
                   success_list, fail_list, cmds, attempts, results, offRun>>

\* docker_login with the password on the command line
login_argv_with_password(auth) ==
    <<auth_registry_of(auth), auth.username, auth.password>>

\* docker_login: the variable parts of ['docker', 'login', registry, '-u',
\* username, '--password-stdin']
login_argv(auth) == <<auth_registry_of(auth), auth.username>>

\* docker_login: communicate(input=password)
login_stdin(auth) == auth.password

\* docker_login: the lines it logs, given how the command ended and what it
\* printed; each non-empty line of the output is passed on
login_lines(auth, outcome, answer) ==
    LET begin == <<[t |-> "login_begin", registry |-> auth_registry_of(auth)]>>
        out == IF answer = <<>> THEN <<>>
               ELSE <<[t |-> "login_out", text |-> answer]>>
    IN  begin \o
        CASE outcome = "zero" -> <<[t |-> "login_ok"]>> \o out
          [] outcome = "nonzero" ->
                <<[t |-> "login_failed", text |-> answer]>> \o out
          [] outcome = "timeout" -> <<[t |-> "login_timeout"]>>
          [] outcome = "error" ->
                <<[t |-> "login_error", text |-> LOGIN_ERROR_TEXT]>>

\* docker_login and the caller's warning when it returns False
DockerLogin ==
    /\ pc = "docker_login"
    /\ \E outcome \in LoginOutcomes :
       \E answer \in IF outcome \in {"zero", "nonzero"}
                     THEN LoginAnswers ELSE {<<>>} :
        LET lines == login_lines(docker_auth[1], outcome, answer)
            warn == IF outcome = "zero" THEN <<>> ELSE <<[t |-> "auth_warn"]>>
        IN  /\ cmds' = Append(cmds,
                   [cmd |-> "login", img |-> 0,
                    argv |-> login_argv(docker_auth[1]),
                    stdin |-> login_stdin(docker_auth[1]),
                    rc |-> outcome, answer |-> answer])
            /\ all_messages' = all_messages \o warn
            /\ output_queue' = callback(output_queue, lines \o warn)
            /\ tasks' = stored(tasks, lines \o warn)
            /\ pc' = after_login(outcome)
    /\ UNCHANGED <<argVars, i, platform,
                   success_list, fail_list, attempts, results, offRun>>

\* sync_images, on a failure: the loop is left
FileResult_break(ok) ==
    /\ IF ok
       THEN /\ success_list' = Append(success_list, source_full)
            /\ i' = next_image(i)
            /\ UNCHANGED fail_list
       ELSE /\ fail_list' = Append(fail_list, source_full)
            /\ i' = Len(images) + 1
            /\ UNCHANGED success_list
    /\ results' = Append(results, ok)
    /\ pc' = "for_img"

\* sync_images: the image sync_single_image returned for is filed in
\* success_list or fail_list and the loop goes on
FileResult(ok) ==
    /\ IF ok
       THEN /\ success_list' = Append(success_list, source_full)
            /\ UNCHANGED fail_list
       ELSE /\ fail_list' = Append(fail_list, source_full)
            /\ UNCHANGED success_list
    /\ results' = Append(results, ok)
    /\ i' = next_image(i)
    /\ pc' = "for_img"

\* the for-loop takes the next image and sync_single_image runs up to its
\* first external command
SyncSingleImageBegin ==
    /\ pc = "for_img"
    /\ i <= Len(images)
    /\ attempts' = Append(attempts, i)
    /\ LET nxt == first_step(format_ok(source_full), use_local)
       IN  IF nxt = "failed"
           THEN LET line == <<[t |-> "format_error", img |-> i]>>
                IN  /\ all_messages' = all_messages \o line
                    /\ output_queue' = callback(output_queue, line)
                    /\ tasks' = stored(tasks, line)
                    /\ FileResult(FALSE)
           ELSE LET line == <<[t |-> "processing", img |-> i,
                               src |-> source_full,
                               dst |-> target_full(source_full, repo)]>>
                IN  /\ all_messages' = all_messages \o line
                    /\ output_queue' = callback(output_queue, line)
                    /\ tasks' = stored(tasks, line)
                    /\ pc' = nxt
                    /\ UNCHANGED <<success_list, fail_list, results, i>>
    /\ UNCHANGED <<argVars, platform, cmds, offRun>>

\* image_exists_locally, and the skip of the pull when it returns True
ImageExistsLocally ==
    /\ pc = "inspect"
    /\ \E outcome \in InspectOutcomes :
        /\ cmds' = Append(cmds, [cmd |-> "inspect", img |-> i,
                                 ref |-> source_full, rc |-> outcome])
        /\ pc' = after_inspect(exists_locally(outcome))
        /\ IF exists_locally(outcome)
           THEN LET line == <<[t |-> "skip_pull", img |-> i]>>
                IN  /\ all_messages' = all_messages \o line
                    /\ output_queue' = callback(output_queue, line)
                    /\ tasks' = stored(tasks, line)
           ELSE UNCHANGED <<all_messages, output_queue, tasks>>
    /\ UNCHANGED <<argVars, i, platform,
                   success_list, fail_list, attempts, results, offRun>>

\* one run_command of sync_single_image: on a non-zero exit the image
\* returns False and sync_images files it in fail_list; after the push it
\* returns True and is filed in success_list
RunStep(step, record) ==
    /\ pc = step
    /\ \E rc \in RunExits :
        LET nxt == after_step(step, step_ok(rc))
        IN  /\ cmds' = Append(cmds, [record EXCEPT !.rc = rc])
            /\ output_queue' = callback(output_queue, command_output(step, i))
            /\ tasks' = stored(tasks, command_output(step, i))
            /\ IF nxt \in {"succeeded", "failed"}
               THEN FileResult(nxt = "succeeded")
               ELSE /\ pc' = nxt
                    /\ UNCHANGED <<success_list, fail_list, results, i>>
    /\ UNCHANGED <<argVars, platform,
                   all_messages, attempts, offRun>>

DockerPull ==
    RunStep("pull", [cmd |-> "pull", img |-> i, platform |-> platform,
                     ref |-> source_full, rc |-> "zero"])

DockerTag ==
    RunStep("tag", [cmd |-> "tag", img |-> i, ref |-> source_full,
                    dst |-> target_full(source_full, repo), rc |-> "zero"])

DockerPush ==
    RunStep("push", [cmd |-> "push", img |-> i,
                     ref |-> target_full(source_full, repo), rc |-> "zero"])

\* the loop is over: sync_images returns without logging the report
SyncImagesReturn_no_report ==
    /\ pc = "for_img"
    /\ i > Len(images)
    /\ pc' = "returned"
    /\ UNCHANGED <<argVars, i, platform, success_list, fail_list,
                   all_messages, output_queue, tasks, cmds, attempts, results,
                   offRun>>

\* the loop is over: sync_images logs the report and returns
SyncImagesReturn ==
    /\ pc = "for_img"
    /\ i > Len(images)
    /\ LET line == <<[t |-> "report", ok |-> success_list,
                      failed |-> fail_list]>>
       IN  /\ all_messages' = all_messages \o line
           /\ output_queue' = callback(output_queue, line)
           /\ tasks' = stored(tasks, line)
    /\ pc' = "returned"
    /\ UNCHANGED <<argVars, i, platform,
                   success_list, fail_list, cmds, attempts, results, offRun>>

\* run_sync_task after sync_images returned
RunSyncTaskCompleted ==
    /\ pc = "returned"
    /\ tasks' = [tasks EXCEPT ![task_id].status = "completed",
                              ![task_id].success_list = success_list,
                              ![task_id].fail_list = fail_list]
    /\ output_queue' = Append(output_queue, EndMarker)
    /\ pc' = "done"
    /\ UNCHANGED <<argVars, i, platform,
                   success_list, fail_list, all_messages, cmds, attempts,
                   results, offRun>>

\* run_sync_task after sync_images raised
RunSyncTaskError ==
    /\ pc = "raised"
    /\ tasks' = [tasks EXCEPT ![task_id].status = "error",
                              ![task_id].output = @ \o <<[t |-> "error"]>>]
    /\ output_queue' = output_queue \o <<[t |-> "error"], EndMarker>>
    /\ pc' = "done"
    /\ UNCHANGED <<argVars, i, platform,
                   success_list, fail_list, all_messages, cmds, attempts,
                   results, offRun>>

\* the process is not the command-line entry
CliIdle == exit_code = <<>>

\* the requests the web application handles
Requests == {1, 2}

\* no request has arrived
AppIdle ==
    /\ task_counter = 0
    /\ request = [r \in Requests |-> [repo |-> <<>>, images |-> <<>>]]
    /\ sync_pc = [r \in Requests |-> "idle"]
    /\ counter_read = [r \in Requests |-> 0]
    /\ req_task_id = [r \in Requests |-> 0]
    /\ queues = [r \in Requests |-> <<>>]
    /\ thread = [r \in Requests |-> "none"]
    /\ written = [r \in Requests |-> <<>>]
    /\ returned = [r \in Requests |-> <<>>]
    /\ stream = [r \in Requests |-> <<>>]
    /\ statuses = <<>>
    /\ effects = [r \in Requests |-> {}]

\* no repository is saved
HistIdle ==
    /\ history_file = [state |-> "missing", items |-> <<>>]
    /\ h_prev = <<>>
    /\ h_call = <<>>
    /\ h_last = <<>>
    /\ n_fresh = 0

\* the pure-function harness is idle
FnIdle ==
    /\ image_name = <<>>
    /\ fn_result = [fn |-> "none"]

\* no search is in progress
SearchIdle ==
    /\ s_op = "none"
    /\ s_image = <<>>
    /\ s_registry = <<>>
    /\ s_limit = 0
    /\ s_auth = <<>>
    /\ s_pc = "idle"
    /\ s_call = [fn |-> "none"]
    /\ s_requests = <<>>
    /\ s_tags = <<>>
    /\ s_page = 1
    /\ s_result = [fn |-> "none"]

InitRun ==
    /\ repo = TargetRepo
    /\ arch \in Archs
    /\ task_id = 1
    /\ run = "first"
    /\ pc = "task_start"
    /\ i = 1
    /\ platform = None
    /\ success_list = <<>>
    /\ fail_list = <<>>
    /\ all_messages = <<>>
    /\ cmds = <<>>
    /\ attempts = <<>>
    /\ results = <<>>
    /\ tasks = <<>>
    /\ output_queue = <<>>
    /\ FnIdle
    /\ SearchIdle
    /\ CliIdle
    /\ HistIdle
    /\ AppIdle

\* a run without a credential, or a shorter run with one (for arm, or for
\* an architecture arch_map does not have)
Init ==
    /\ \/ /\ images \in Batches(BatchImages, MaxImages)
          /\ docker_auth = <<>>
          /\ use_local \in BOOLEAN
       \/ /\ images \in Batches(AuthImages, MaxAuthImages)
          /\ docker_auth \in {<<c>> : c \in Credentials}
          /\ use_local = FALSE
    /\ InitRun
    /\ docker_auth # <<>> => arch # "amd64"

Next ==
    \/ RunSyncTaskBegin
    \/ SyncImagesBegin
    \/ DockerLogin
    \/ SyncSingleImageBegin
    \/ ImageExistsLocally
    \/ DockerPull
    \/ DockerTag
    \/ DockerPush
    \/ SyncImagesReturn
    \/ RunSyncTaskCompleted
    \/ RunSyncTaskError

Spec == Init /\ [][Next]_vars

------------------------------------------------------------------------------
\* A batch that went through completely is synced a second time

\* a second request for the images of a run that pushed all of them, now
\* with use_local set: a new task, a new queue, a new sync_images call
Rerun ==
    /\ pc = "done"
    /\ run = "first"
    /\ tasks[task_id].status = "completed"
    /\ images # <<>>
    /\ fail_list = <<>>
    /\ run' = "rerun"
    /\ use_local' = TRUE
    /\ task_id' = task_id + 1
    /\ pc' = "task_start"
    /\ i' = 1
    /\ platform' = None
    /\ success_list' = <<>>
    /\ fail_list' = <<>>
    /\ all_messages' = <<>>
    /\ cmds' = <<>>
    /\ attempts' = <<>>
    /\ results' = <<>>
    /\ output_queue' = <<>>
    /\ UNCHANGED <<images, repo, arch, docker_auth, tasks, offRun>>

InitRerun ==
    /\ images \in Batches(BatchImages, MaxRerunImages)
    /\ docker_auth = <<>>
    /\ use_local \in BOOLEAN
    /\ InitRun
    /\ arch \in DOMAIN arch_map

NextRerun ==
    \/ RunSyncTaskBegin
    \/ SyncImagesBegin
    \/ SyncSingleImageBegin
    \/ ImageExistsLocally
    \/ DockerPull
    \/ DockerTag
    \/ DockerPush
    \/ SyncImagesReturn
    \/ RunSyncTaskCompleted
    \/ Rerun

SpecRerun == InitRerun /\ [][NextRerun]_vars

------------------------------------------------------------------------------
\* The pure functions applied to one input string

Alphabet == {"a", ".", ":", "/", "@"}
Hosts == {<<"h">>, <<"x", ".", "y">>, <<"h", ":", "5">>, LOCALHOST,
          INDEX_DOCKER_IO}
Words == {<<"n">>, <<"c">>}
\* host/ns/image:tag
References == {h \o <<"/">> \o n \o <<"/">> \o c \o <<":">> \o t :
               h \in Hosts, n \in Words, c \in Words, t \in Words}
Names == Batches(Alphabet, MaxLen) \cup References

\* no run is in progress while a function is applied
RunIdle ==
    /\ images = <<>>
    /\ repo = TargetRepo
    /\ arch = "arm"
    /\ docker_auth = <<>>
    /\ use_local = FALSE
    /\ task_id = 1
    /\ run = "first"
    /\ pc = "idle"
    /\ i = 1
    /\ platform = None
    /\ success_list = <<>>
    /\ fail_list = <<>>
    /\ all_messages = <<>>
    /\ cmds = <<>>
    /\ attempts = <<>>
    /\ results = <<>>
    /\ tasks = <<>>
    /\ output_queue = <<>>

InitFn ==
    /\ image_name \in Names
    /\ fn_result = [fn |-> "none"]
    /\ RunIdle
    /\ SearchIdle
    /\ CliIdle
    /\ HistIdle
    /\ AppIdle

ParseImageName ==
    /\ fn_result.fn = "none"
    /\ fn_result' = [fn |-> "parse_image_name",
                     parsed |-> parse_image_name(image_name)]
    /\ UNCHANGED <<image_name, offFn>>

GetImageRegistry ==
    /\ fn_result.fn = "none"
    /\ fn_result' = [fn |-> "get_image_registry",
                     registry |-> get_image_registry(image_name)]
    /\ UNCHANGED <<image_name, offFn>>

\* sync_single_image up to the first log line: format check and target
DeriveTarget ==
    /\ fn_result.fn = "none"
    /\ fn_result' = [fn |-> "sync_single_image",
                     ok |-> format_ok(image_name),
                     target |-> IF format_ok(image_name)
                                THEN target_full(image_name, repo)
                                ELSE <<>>]
    /\ UNCHANGED <<image_name, offFn>>

NextFn ==
    \/ ParseImageName
    \/ GetImageRegistry
    \/ DeriveTarget

SpecFn == InitFn /\ [][NextFn]_vars

------------------------------------------------------------------------------
\* image_search.py: one call of a search operation

\* more string literals of the program
HUB_DOCKER_COM == <<"h","u","b",".">> \o <<"d","o","c","k","e","r",".","c","o","m">>
HTTP == <<"h","t","t","p">>
HTTP_SCHEME == HTTP \o <<":","/","/">>
HTTPS_SCHEME == HTTP \o <<"s",":","/","/">>

\* s.startswith(p)
StartsWith(s, p) == Len(s) >= Len(p) /\ SubSeq(s, 1, Len(p)) = p

\* search_docker_hub_tags stops after this page
MAX_PAGES == 10

\* largest limit a search is called with
MaxLimit == 12

\* ---- what requests.get can do ---------------------------------------------
\* requests.get raised (connection refused, timeout, TLS failure)
Raised == [raised |-> TRUE, status |-> 0, json |-> FALSE, names |-> <<>>,
           next |-> FALSE]
\* a response with a status other than 200: its body is an error document
Status(s) == [raised |-> FALSE, status |-> s, json |-> TRUE, names |-> <<>>,
              next |-> FALSE]
\* a 200 whose body response.json() or the code reading it raises on
Malformed == [raised |-> FALSE, status |-> 200, json |-> FALSE,
              names |-> <<>>, next |-> FALSE]
\* a 200 with a well-formed body: the names of its entries (0 is the empty
\* name) and whether it has a next cursor
Body(names, next) == [raised |-> FALSE, status |-> 200, json |-> TRUE,
                      names |-> names, next |-> next]

\* the entries of page p: distinct names, an unnamed entry where shape has 0
Entries(p, shape) ==
    [k \in 1..Len(shape) |-> IF shape[k] = 0 THEN 0 ELSE 10 * p + k]
PageShapes == {<<>>, <<1>>, <<1, 0, 1>>}
HubResponses(p) ==
    {Raised, Status(404), Status(500), Malformed}
    \cup {Body(Entries(p, shape), next) :
          shape \in PageShapes, next \in BOOLEAN}
RegistryResponses ==
    {Raised, Status(401), Status(404), Status(500), Malformed,
     Body(<<>>, FALSE), Body(<<1, 2>>, FALSE)}

\* ---- results --------------------------------------------------------------
failure(error) == [success |-> FALSE, tags |-> <<>>, error |-> error]
images_failure(error) == [success |-> FALSE, images |-> <<>>, error |-> error]

\* the except clauses: which handler catches what
caught(resp) == IF resp.raised THEN "network" ELSE "search"

\* the entries that have a name
Named(names) == SelectSeq(names, LAMBDA n : n # 0)

\* tags[:limit]
FirstN(tags, limit) ==
    SubSeq(tags, 1, IF limit < Len(tags) THEN limit ELSE Len(tags))

\* ---- search_image_tags ----------------------------------------------------
\* the function search_image_tags hands the search to, with its arguments
search_image_tags(image, registry, limit, auth) ==
    IF /\ registry # <<>>
       /\ registry[1] # <<>>
       /\ registry[1] \notin {DOCKER_IO, REGISTRY_1_DOCKER_IO, HUB_DOCKER_COM}
    THEN [fn |-> "search_registry_tags", registry |-> registry[1],
          namespace |-> parse_image_name(image).namespace,
          image |-> parse_image_name(image).image, auth |-> auth]
    ELSE [fn |-> "search_docker_hub_tags", image_name |-> image,
          limit |-> limit, auth |-> auth]

SearchImageTags ==
    /\ s_pc = "called"
    /\ s_op = "search_image_tags"
    /\ s_call' = search_image_tags(s_image, s_registry, s_limit, s_auth)
    /\ s_pc' = s_call'.fn
    /\ UNCHANGED <<s_op, s_image, s_registry, s_limit, s_auth, s_requests,
                   s_tags, s_page, s_result, offSearch>>

\* ---- search_docker_hub_tags -----------------------------------------------
\* the branch on the parsed registry: the Docker Hub loop, or the generic
\* registry search called with three arguments
search_docker_hub_tags(name, limit, auth) ==
    LET parsed == parse_image_name(name)
    IN  IF parsed.registry = DOCKER_IO \/ parsed.registry = REGISTRY_1_DOCKER_IO
        THEN [fn |-> "hub_loop", image_name |-> name,
              namespace |-> parsed.namespace, image |-> parsed.image,
              limit |-> limit, auth |-> auth]
        ELSE [fn |-> "search_registry_tags", registry |-> parsed.registry,
              namespace |-> parsed.namespace, image |-> parsed.image,
              auth |-> <<>>]

SearchDockerHubTags ==
    /\ s_pc = "search_docker_hub_tags"
    /\ s_call' = search_docker_hub_tags(s_call.image_name, s_call.limit,
                                        s_call.auth)
    /\ s_pc' = s_call'.fn
    /\ s_tags' = <<>>
    /\ s_page' = 1
    /\ UNCHANGED <<s_op, s_image, s_registry, s_limit, s_auth, s_requests,
                   s_result, offSearch>>

\* the loop goes round again after a page that had entries
hub_more_uncapped(resp, next_page) ==
    /\ resp.names # <<>>
    /\ resp.next

hub_more(resp, next_page) ==
    /\ resp.names # <<>>
    /\ resp.next
    /\ ~(next_page > MAX_PAGES)

hub_failure(resp) ==
    IF resp.raised THEN failure(caught(resp))
    ELSE IF resp.status = 404 THEN failure("not_found")
    ELSE IF resp.status # 200 THEN failure("http_error")
    ELSE failure(caught(resp))

hub_success(tags, call) ==
    [success |-> TRUE, tags |-> FirstN(tags, call.limit),
     registry |-> DOCKER_IO, namespace |-> call.namespace,
     image |-> call.image]

\* one round of the while loop: the page request and what follows it
HubPageRequest ==
    /\ s_pc = "hub_loop"
    /\ Len(s_tags) < s_call.limit
    /\ \E resp \in HubResponses(s_page) :
         LET tags == s_tags \o Named(resp.names)
         IN  /\ s_requests' = Append(s_requests,
                    [endpoint |-> "hub_tags",
                     base |-> HTTPS_SCHEME \o HUB_DOCKER_COM,
                     path |-> s_call.namespace \o <<"/">> \o s_call.image,
                     page |-> s_page, auth |-> s_call.auth,
                     had |-> Len(s_tags), resp |-> resp])
             /\ IF resp.raised \/ resp.status # 200 \/ ~resp.json
                THEN /\ s_result' = hub_failure(resp)
                     /\ s_pc' = "done"
                     /\ UNCHANGED <<s_tags, s_page>>
                ELSE /\ s_tags' = tags
                     /\ s_page' = IF resp.names # <<>> /\ resp.next
                                  THEN s_page + 1 ELSE s_page
                     /\ IF hub_more(resp, s_page + 1)
                        THEN UNCHANGED <<s_result, s_pc>>
                        ELSE /\ s_result' = hub_success(tags, s_call)
                             /\ s_pc' = "done"
    /\ UNCHANGED <<s_op, s_image, s_registry, s_limit, s_auth, s_call,
                   offSearch>>

\* the while condition is false: enough tags
HubReturn ==
    /\ s_pc = "hub_loop"
    /\ ~(Len(s_tags) < s_call.limit)
    /\ s_result' = hub_success(s_tags, s_call)
    /\ s_pc' = "done"
    /\ UNCHANGED <<s_op, s_image, s_registry, s_limit, s_auth, s_call,
                   s_requests, s_tags, s_page, offSearch>>

\* ---- search_registry_tags -------------------------------------------------
image_path(namespace, image) ==
    IF namespace # <<>> /\ namespace # LIBRARY
    THEN namespace \o <<"/">> \o image
    ELSE image

base_url(registry) ==
    IF StartsWith(registry, HTTP_SCHEME) \/ StartsWith(registry, HTTPS_SCHEME)
    THEN registry
    ELSE HTTPS_SCHEME \o registry

\* the test that sends the second request
try_http(resp, registry) ==
    /\ resp.status \notin {200, 401, 404}
    /\ ~StartsWith(registry, HTTP)

\* the result for the last response
registry_result_any_status(resp, call) ==
    IF resp.status = 404 THEN failure("not_found")
    ELSE IF resp.status = 401 THEN failure("unauthorized")
    ELSE IF ~resp.json THEN failure(caught(resp))
    ELSE [success |-> TRUE, tags |-> resp.names, registry |-> call.registry,
          namespace |-> call.namespace, image |-> call.image]

registry_result(resp, call) ==
    IF resp.status = 404 THEN failure("not_found")
    ELSE IF resp.status = 401 THEN failure("unauthorized")
    ELSE IF resp.status # 200 THEN failure("http_error")
    ELSE IF ~resp.json THEN failure(caught(resp))
    ELSE [success |-> TRUE, tags |-> resp.names, registry |-> call.registry,
          namespace |-> call.namespace, image |-> call.image]

registry_request(base, call, resp) ==
    [endpoint |-> "registry_v2", base |-> base,
     path |-> image_path(call.namespace, call.image), page |-> 0,
     auth |-> call.auth, had |-> 0, resp |-> resp]

\* the first request, and the result unless a second request follows
RegistryRequest ==
    /\ s_pc = "search_registry_tags"
    /\ \E resp \in RegistryResponses :
         /\ s_requests' = Append(s_requests,
                registry_request(base_url(s_call.registry), s_call, resp))
         /\ IF resp.raised
            THEN /\ s_result' = failure(caught(resp))
                 /\ s_pc' = "done"
            ELSE IF try_http(resp, s_call.registry)
            THEN /\ s_pc' = "try_http"
                 /\ UNCHANGED s_result
            ELSE /\ s_result' = registry_result(resp, s_call)
                 /\ s_pc' = "done"
    /\ UNCHANGED <<s_op, s_image, s_registry, s_limit, s_auth, s_call, s_tags,
                   s_page, offSearch>>

\* the second request, over http, and the result
RegistryHttpRequest ==
    /\ s_pc = "try_http"
    /\ \E resp \in RegistryResponses :
         /\ s_requests' = Append(s_requests,
                registry_request(HTTP_SCHEME \o s_call.registry, s_call, resp))
         /\ s_result' = IF resp.raised THEN failure(caught(resp))
                        ELSE registry_result(resp, s_call)
         /\ s_pc' = "done"
    /\ UNCHANGED <<s_op, s_image, s_registry, s_limit, s_auth, s_call, s_tags,
                   s_page, offSearch>>

\* ---- search_docker_hub_images ---------------------------------------------
images_result(resp) ==
    IF resp.raised THEN images_failure(caught(resp))
    ELSE IF resp.status # 200 THEN images_failure("http_error")
    ELSE IF ~resp.json THEN images_failure(caught(resp))
    ELSE [success |-> TRUE, images |-> Named(resp.names),
          total |-> Len(resp.names)]

SearchDockerHubImages ==
    /\ s_pc = "called"
    /\ s_op = "search_docker_hub_images"
    /\ \E resp \in HubResponses(1) :
         /\ s_requests' = Append(s_requests,
                [endpoint |-> "hub_search",
                 base |-> HTTPS_SCHEME \o HUB_DOCKER_COM,
                 path |-> s_image, page |-> 1, auth |-> s_auth, had |-> 0,
                 resp |-> resp])
         /\ s_result' = images_result(resp)
    /\ s_call' = [fn |-> "search_docker_hub_images"]
    /\ s_pc' = "done"
    /\ UNCHANGED <<s_op, s_image, s_registry, s_limit, s_auth, s_tags, s_page,
                   offSearch>>

\* ---- the calls ------------------------------------------------------------
SearchNames == {<<"c">>, <<"n", "/", "c">>,
                <<"x", ".", "y", "/", "n", "/", "c">>}
SearchRegistries == {<<"x", ".", "y">>, HTTP_SCHEME \o <<"x", ".", "y">>,
                     HTTPS_SCHEME \o <<"x", ".", "y">>,
                     HTTP \o <<"x", ".", "y">>,
                     DOCKER_IO, REGISTRY_1_DOCKER_IO, HUB_DOCKER_COM}
SearchLimits == {0, 1, 2, MaxLimit}
SearchAuths == {<<>>, <<<<"u", "p">>>>}

InitSearch ==
    /\ s_op \in {"search_image_tags", "search_docker_hub_images"}
    /\ s_image \in SearchNames
    /\ s_registry \in {<<>>} \cup {<<r>> : r \in SearchRegistries}
    /\ s_op = "search_docker_hub_images" => s_registry = <<>>
    /\ s_limit \in SearchLimits
    /\ s_auth \in SearchAuths
    /\ s_pc = "called"
    /\ s_call = [fn |-> "none"]
    /\ s_requests = <<>>
    /\ s_tags = <<>>
    /\ s_page = 1
    /\ s_result = [fn |-> "none"]
    /\ RunIdle
    /\ FnIdle
    /\ CliIdle
    /\ HistIdle
    /\ AppIdle

NextSearch ==
    \/ SearchImageTags
    \/ SearchDockerHubTags
    \/ HubPageRequest
    \/ HubReturn
    \/ RegistryRequest
    \/ RegistryHttpRequest
    \/ SearchDockerHubImages

SpecSearch == InitSearch /\ [][NextSearch]_vars

------------------------------------------------------------------------------
\* sync_image.py run from the command line: main

\* argparse: --arch is one of these
ArchChoices == {"arm", "amd64"}

\* main after sync_images: exit 1 only when nothing was synced
main_exit_none_synced(result) ==
    IF result.success_list = <<>> THEN 1 ELSE 0

\* main after sync_images: sys.exit(1) on a non-empty fail_list, else the
\* process ends normally
main_exit(result) ==
    IF result.fail_list # <<>> THEN 1 ELSE 0

MainExit ==
    /\ pc = "returned"
    /\ exit_code = <<>>
    /\ exit_code' = <<main_exit([success_list |-> success_list,
                                 fail_list |-> fail_list])>>
    /\ pc' = "exited"
    /\ UNCHANGED <<argVars, i, platform, success_list, fail_list,
                   all_messages, cmds, attempts, results, tasks, output_queue,
                   offCli>>

\* main called sync_images without a callback and without a credential
InitCli ==
    /\ images \in Batches(BatchImages, MaxImages)
    /\ repo = TargetRepo
    /\ arch \in ArchChoices
    /\ docker_auth = <<>>
    /\ use_local \in BOOLEAN
    /\ task_id = 0
    /\ run = "first"
    /\ pc = "sync_images"
    /\ i = 1
    /\ platform = None
    /\ success_list = <<>>
    /\ fail_list = <<>>
    /\ all_messages = <<>>
    /\ cmds = <<>>
    /\ attempts = <<>>
    /\ results = <<>>
    /\ tasks = <<>>
    /\ output_queue = <<>>
    /\ exit_code = <<>>
    /\ FnIdle
    /\ SearchIdle
    /\ HistIdle
    /\ AppIdle

NextCli ==
    \/ SyncImagesBegin
    \/ SyncSingleImageBegin
    \/ ImageExistsLocally
    \/ DockerPull
    \/ DockerTag
    \/ DockerPush
    \/ SyncImagesReturn
    \/ MainExit

SpecCli == InitCli /\ [][NextCli]_vars

------------------------------------------------------------------------------
\* app.py: the history of target repositories

REPO_HISTORY_MAX == 20

\* how many distinct repositories are saved
MaxFresh == 22

\* load_repo_history: the list in the file; [] when the file is missing or
\* cannot be read as a list
load_repo_history(file) ==
    IF file.state = "list" THEN file.items ELSE <<>>

\* the list save_repo_to_history writes: the name in front, not deduplicated
new_history_no_dedupe(history, name) ==
    FirstN(<<name>> \o history, REPO_HISTORY_MAX)

\* the list save_repo_to_history writes: the name in front, its earlier entry
\* removed, cut to REPO_HISTORY_MAX
new_history(history, name) ==
    FirstN(<<name>> \o SelectSeq(history, LAMBDA r : r # name),
           REPO_HISTORY_MAX)

\* what the write of the file can do: it succeeds; open() raises and the file
\* is as before; json.dump raises after open() truncated the file
WriteOutcomes == {"written", "open_raised", "dump_raised"}

\* the k-th repository name
RepoName(k) == [j \in 1..k |-> "r"]
\* the strings save_repo_to_history is called with: a repository never
\* written before, the first repository again, bare and padded, and blank strings
RepoInputs == {RepoName(n_fresh + 1), RepoName(1),
               <<" ">> \o RepoName(1) \o <<" ">>, <<>>, <<" ">>, <<" ", " ">>}

SaveRepoToHistory ==
    /\ \E raw \in RepoInputs :
         LET name == Strip(raw)
             history == load_repo_history(history_file)
         IN  /\ Len(name) <= MaxFresh
             /\ IF name = <<>>
                THEN /\ h_call' = <<[repo |-> raw, wrote |-> "nothing"]>>
                     /\ UNCHANGED history_file
                ELSE \E wrote \in WriteOutcomes :
                       /\ h_call' = <<[repo |-> raw, wrote |-> wrote]>>
                       /\ history_file' =
                            IF wrote = "written"
                            THEN [state |-> "list",
                                  items |-> new_history(history, name)]
                            ELSE IF wrote = "open_raised"
                            THEN history_file
                            ELSE [state |-> "unreadable", items |-> <<>>]
             /\ h_prev' = history
             /\ h_last' = IF name = <<>> THEN h_last ELSE <<name>>
             /\ n_fresh' = IF Len(name) > n_fresh /\ history_file' # history_file
                          THEN Len(name) ELSE n_fresh
    /\ UNCHANGED offHist

\* the history starts empty: no file, or a file holding []
InitHist ==
    /\ history_file \in {[state |-> "missing", items |-> <<>>],
                         [state |-> "list", items |-> <<>>]}
    /\ h_prev = <<>>
    /\ h_call = <<>>
    /\ h_last = <<>>
    /\ n_fresh = 0
    /\ RunIdle
    /\ FnIdle
    /\ SearchIdle
    /\ CliIdle
    /\ AppIdle

NextHist == SaveRepoToHistory

SpecHist == InitHist /\ [][NextHist]_vars

------------------------------------------------------------------------------
\* app.py: POST /api/sync handled by concurrent handler threads

\* most lines a worker writes before sync_images ends
MaxLines == 1

RECURSIVE Splits(_)
\* what sync_images can return for a batch: every image in one of the lists
Splits(batch) ==
    IF batch = <<>>
    THEN {[success_list |-> <<>>, fail_list |-> <<>>]}
    ELSE LET rest == Splits(Tail(batch))
         IN  {[success_list |-> <<batch[1]>> \o s.success_list,
               fail_list |-> s.fail_list] : s \in rest}
             \cup {[success_list |-> s.success_list,
                    fail_list |-> <<batch[1]>> \o s.fail_list] : s \in rest}

\* the checks of sync() without the image format check
valid_request_any_format(data) ==
    /\ Strip(data.repo) # <<>>
    /\ data.images # <<>>

\* the checks of sync(): repo, image list, ':' in every image
valid_request(data) ==
    /\ Strip(data.repo) # <<>>
    /\ data.images # <<>>
    /\ \A k \in 1..Len(data.images) : Contains(data.images[k], ":")

\* sync() up to the task creation: validation, then save_repo_to_history
SyncBegin(r) ==
    /\ sync_pc[r] = "received"
    /\ IF ~valid_request(request[r])
       THEN /\ sync_pc' = [sync_pc EXCEPT ![r] = "rejected"]
            /\ UNCHANGED <<history_file, effects>>
       ELSE /\ sync_pc' = [sync_pc EXCEPT ![r] = "saved"]
            /\ effects' = [effects EXCEPT ![r] = @ \cup {"history"}]
            /\ \E wrote \in WriteOutcomes :
                 history_file' =
                   IF wrote = "written"
                   THEN [state |-> "list",
                         items |-> new_history(
                                     load_repo_history(history_file),
                                     Strip(request[r].repo))]
                   ELSE IF wrote = "open_raised"
                   THEN history_file
                   ELSE [state |-> "unreadable", items |-> <<>>]
    /\ UNCHANGED <<task_counter, request, counter_read, req_task_id, queues,
                   thread, written, returned, stream, statuses, tasks, offApp>>

\* task_counter += 1, first half: the global is loaded
SyncLoadCounter(r) ==
    /\ sync_pc[r] = "saved"
    /\ counter_read' = [counter_read EXCEPT ![r] = task_counter]
    /\ sync_pc' = [sync_pc EXCEPT ![r] = "loaded"]
    /\ UNCHANGED <<task_counter, request, req_task_id, queues, thread, written,
                   returned, stream, statuses, effects, tasks, history_file,
                   offApp>>

\* task_counter += 1, second half: the sum is stored
SyncStoreCounter(r) ==
    /\ sync_pc[r] = "loaded"
    /\ task_counter' = counter_read[r] + 1
    /\ sync_pc' = [sync_pc EXCEPT ![r] = "stored"]
    /\ effects' = [effects EXCEPT ![r] = @ \cup {"counter"}]
    /\ UNCHANGED <<request, counter_read, req_task_id, queues, thread, written,
                   returned, stream, statuses, tasks, history_file, offApp>>

\* task_id is made from the global, the queue is created, the thread started
SyncStartThread(r) ==
    /\ sync_pc[r] = "stored"
    /\ req_task_id' = [req_task_id EXCEPT ![r] = task_counter]
    /\ queues' = [queues EXCEPT ![r] = <<>>]
    /\ thread' = [thread EXCEPT ![r] = "started"]
    /\ sync_pc' = [sync_pc EXCEPT ![r] = "streaming"]
    /\ effects' = [effects EXCEPT ![r] = @ \cup {"thread"}]
    /\ UNCHANGED <<task_counter, request, counter_read, written, returned,
                   stream, statuses, tasks, history_file, offApp>>

\* run_sync_task: the entry of the task is created
RunSyncTaskRegister(r) ==
    /\ thread[r] = "started"
    /\ LET id == req_task_id[r]
       IN  /\ tasks' = [k \in DOMAIN tasks \cup {id} |->
                          IF k = id
                          THEN [status |-> "running", output |-> <<>>,
                                success_list |-> <<>>, fail_list |-> <<>>]
                          ELSE tasks[k]]
           /\ statuses' = [k \in DOMAIN statuses \cup {id} |->
                             IF k \in DOMAIN statuses
                             THEN IF k = id
                                  THEN Append(statuses[k], "running")
                                  ELSE statuses[k]
                             ELSE <<"running">>]
    /\ thread' = [thread EXCEPT ![r] = "running"]
    /\ UNCHANGED <<task_counter, request, sync_pc, counter_read, req_task_id,
                   queues, written, returned, stream, effects, history_file,
                   offApp>>

\* output_callback: sync_images logs a line
OutputCallback(r) ==
    /\ thread[r] = "running"
    /\ Len(written[r]) < MaxLines
    /\ LET line == [r |-> r, n |-> Len(written[r]) + 1]
       IN  /\ queues' = [queues EXCEPT ![r] = Append(@, line)]
           /\ tasks' = [tasks EXCEPT ![req_task_id[r]].output =
                                        Append(@, line)]
           /\ written' = [written EXCEPT ![r] = Append(@, line)]
    /\ UNCHANGED <<task_counter, request, sync_pc, counter_read, req_task_id,
                   thread, returned, stream, statuses, effects, history_file,
                   offApp>>

\* run_sync_task after sync_images returned
RunSyncTaskReturned(r) ==
    /\ thread[r] = "running"
    /\ \E result \in Splits(request[r].images) :
         /\ tasks' = [tasks EXCEPT
                        ![req_task_id[r]].status = "completed",
                        ![req_task_id[r]].success_list = result.success_list,
                        ![req_task_id[r]].fail_list = result.fail_list]
         /\ returned' = [returned EXCEPT ![r] =
                           <<[status |-> "completed",
                              success_list |-> result.success_list,
                              fail_list |-> result.fail_list]>>]
    /\ statuses' = [statuses EXCEPT ![req_task_id[r]] = Append(@, "completed")]
    /\ queues' = [queues EXCEPT ![r] = Append(@, EndMarker)]
    /\ thread' = [thread EXCEPT ![r] = "finished"]
    /\ UNCHANGED <<task_counter, request, sync_pc, counter_read, req_task_id,
                   written, stream, effects, history_file, offApp>>

\* run_sync_task after sync_images raised, without the end marker
RunSyncTaskRaised_no_marker(r) ==
    /\ thread[r] = "running"
    /\ LET error_msg == [r |-> r, n |-> 0]
       IN  /\ tasks' = [tasks EXCEPT
                          ![req_task_id[r]].status = "error",
                          ![req_task_id[r]].output = Append(@, error_msg)]
           /\ queues' = [queues EXCEPT ![r] = @ \o <<error_msg>>]
           /\ written' = [written EXCEPT ![r] = Append(@, error_msg)]
    /\ returned' = [returned EXCEPT ![r] =
                      <<[status |-> "error", success_list |-> <<>>,
                         fail_list |-> <<>>]>>]
    /\ statuses' = [statuses EXCEPT ![req_task_id[r]] = Append(@, "error")]
    /\ thread' = [thread EXCEPT ![r] = "finished"]
    /\ UNCHANGED <<task_counter, request, sync_pc, counter_read, req_task_id,
                   stream, effects, history_file, offApp>>

\* run_sync_task after sync_images raised
RunSyncTaskRaised(r) ==
    /\ thread[r] = "running"
    /\ LET error_msg == [r |-> r, n |-> 0]
       IN  /\ tasks' = [tasks EXCEPT
                          ![req_task_id[r]].status = "error",
                          ![req_task_id[r]].output = Append(@, error_msg)]
           /\ queues' = [queues EXCEPT ![r] = @ \o <<error_msg, EndMarker>>]
           /\ written' = [written EXCEPT ![r] = Append(@, error_msg)]
    /\ returned' = [returned EXCEPT ![r] =
                      <<[status |-> "error", success_list |-> <<>>,
                         fail_list |-> <<>>]>>]
    /\ statuses' = [statuses EXCEPT ![req_task_id[r]] = Append(@, "error")]
    /\ thread' = [thread EXCEPT ![r] = "finished"]
    /\ UNCHANGED <<task_counter, request, sync_pc, counter_read, req_task_id,
                   stream, effects, history_file, offApp>>

\* the terminal event generate() builds from the registry
final_status(id) ==
    [type |-> "status", task_id |-> id, status |-> tasks[id].status,
     success_list |-> tasks[id].success_list,
     fail_list |-> tasks[id].fail_list]

\* generate(): one round of the loop, a get() that returns or times out
Generate(r) ==
    /\ sync_pc[r] = "streaming"
    /\ IF queues[r] # <<>>
       THEN /\ queues' = [queues EXCEPT ![r] = Tail(@)]
            /\ IF queues[r][1] = EndMarker
               THEN /\ stream' = [stream EXCEPT ![r] =
                                    Append(@, final_status(req_task_id[r]))]
                    /\ sync_pc' = [sync_pc EXCEPT ![r] = "closed"]
               ELSE /\ stream' = [stream EXCEPT ![r] =
                                    Append(@, [type |-> "output",
                                               line |-> queues[r][1]])]
                    /\ UNCHANGED sync_pc
       ELSE IF /\ thread[r] = "finished"
               /\ req_task_id[r] \in DOMAIN tasks
               /\ tasks[req_task_id[r]].status # "running"
       THEN /\ stream' = [stream EXCEPT ![r] =
                            Append(@, final_status(req_task_id[r]))]
            /\ sync_pc' = [sync_pc EXCEPT ![r] = "closed"]
            /\ UNCHANGED queues
       ELSE UNCHANGED <<queues, stream, sync_pc>>
    /\ UNCHANGED <<task_counter, request, counter_read, req_task_id, thread,
                   written, returned, statuses, effects, tasks, history_file,
                   offApp>>

\* the posted bodies: repo blank or padded, image list empty, with and
\* without ':' in every image
Posted(name) ==
    {[repo |-> <<" ", "t", " ">>, images |-> <<name \o <<":", "1">>>>],
     [repo |-> <<>>, images |-> <<name \o <<":", "1">>>>],
     [repo |-> <<" ">>, images |-> <<name \o <<":", "1">>>>],
     [repo |-> <<"t">>, images |-> <<>>],
     [repo |-> <<"t">>, images |-> <<name \o <<":", "1">>, name>>]}

InitApp ==
    /\ task_counter = 0
    /\ request \in {[r \in Requests |-> IF r = 1 THEN a ELSE b] :
                    a \in Posted(<<"a">>),
                    b \in {[repo |-> <<"t">>, images |-> <<<<"b", ":", "1">>>>],
                           [repo |-> <<"t">>, images |-> <<<<"b">>>>]}}
    /\ sync_pc = [r \in Requests |-> "received"]
    /\ counter_read = [r \in Requests |-> 0]
    /\ req_task_id = [r \in Requests |-> 0]
    /\ queues = [r \in Requests |-> <<>>]
    /\ thread = [r \in Requests |-> "none"]
    /\ written = [r \in Requests |-> <<>>]
    /\ returned = [r \in Requests |-> <<>>]
    /\ stream = [r \in Requests |-> <<>>]
    /\ statuses = <<>>
    /\ effects = [r \in Requests |-> {}]
    /\ RunIdle
    /\ FnIdle
    /\ SearchIdle
    /\ CliIdle
    /\ HistIdle

NextApp ==
    \E r \in Requests :
      \/ SyncBegin(r)
      \/ SyncLoadCounter(r)
      \/ SyncStoreCounter(r)
      \/ SyncStartThread(r)
      \/ RunSyncTaskRegister(r)
      \/ OutputCallback(r)
      \/ RunSyncTaskReturned(r)
      \/ RunSyncTaskRaised(r)
      \/ Generate(r)

SpecApp == InitApp /\ [][NextApp]_vars

\* the steps of the handler thread of a request, generate() included, and of
\* its worker thread
HandlerThread(r) ==
    \/ SyncBegin(r)
    \/ SyncLoadCounter(r)
    \/ SyncStoreCounter(r)
    \/ SyncStartThread(r)
    \/ Generate(r)
WorkerThread(r) ==
    \/ RunSyncTaskRegister(r)
    \/ OutputCallback(r)
    \/ RunSyncTaskReturned(r)
    \/ RunSyncTaskRaised(r)

\* every thread that can take a step is scheduled, and every external
\* command the worker waits for terminates
AppFairness ==
    \A r \in Requests :
      /\ WF_vars(HandlerThread(r))
      /\ WF_vars(WorkerThread(r))

SpecAppLive == InitApp /\ [][NextApp]_vars /\ AppFairness

------------------------------------------------------------------------------
\* Properties of a sync_images run

\* the commands of image k, and its pull/tag/push commands
CmdsOf(k) == SelectSeq(cmds, LAMBDA c : c.img = k)
StepsOf(k) == SelectSeq(cmds, LAMBDA c : c.img = k /\ c.cmd \in {"pull", "tag", "push"})
InspectsOf(k) == SelectSeq(cmds, LAMBDA c : c.img = k /\ c.cmd = "inspect")
CmdNames(seq) == [j \in 1..Len(seq) |-> seq[j].cmd]
IsPrefix(a, b) == Len(a) <= Len(b) /\ SubSeq(b, 1, Len(a)) = a
AllZero(seq) == \A j \in 1..Len(seq) : seq[j].rc = "zero"
HasTagSeparator(s) == Contains(s, ":")

RECURSIVE Pick(_, _, _)
\* the subsequence of seq at the positions where mask is b
Pick(seq, mask, b) ==
    IF Len(seq) = 0 THEN <<>>
    ELSE (IF mask[1] = b THEN <<seq[1]>> ELSE <<>>)
         \o Pick(Tail(seq), Tail(mask), b)

\* sync_images has returned its result
Returned == pc = "returned"

\* C1: every image is attempted exactly once, in input order, whatever the
\* outcome of the images before it; on return success_list and fail_list are
\* the two halves of a split of the input by position, each in input order.
C1_PartialFailure ==
    /\ \A k \in 1..Len(attempts) : attempts[k] = k
    /\ Len(attempts) <= Len(images)
    /\ Returned =>
        /\ Len(attempts) = Len(images)
        /\ \E mask \in [1..Len(images) -> BOOLEAN] :
              /\ success_list = Pick(images, mask, TRUE)
              /\ fail_list = Pick(images, mask, FALSE)

\* a batch of three whose second image failed at the tag step
C1_Witness ==
    /\ Returned
    /\ Len(images) = 3
    /\ success_list = <<images[1], images[3]>>
    /\ fail_list = <<images[2]>>
    /\ \E j \in 1..Len(cmds) :
          cmds[j].img = 2 /\ cmds[j].cmd = "tag" /\ cmds[j].rc = "nonzero"

\* the commands the plan of image k contains: the pull is left out on a
\* cache hit
PlanOf(k) ==
    IF \E j \in 1..Len(cmds) :
          cmds[j].img = k /\ cmds[j].cmd = "inspect" /\ cmds[j].rc = "zero"
    THEN <<"tag", "push">>
    ELSE <<"pull", "tag", "push">>

\* C2: the commands of one image run in the order pull (unless skipped),
\* tag, push; a command runs only after the one before it exited zero, the
\* first non-zero exit is the image's last command, and the image's result
\* is success exactly when the whole plan ran and exited zero.
C2_StepOrder ==
    \A k \in 1..Len(images) :
        HasTagSeparator(images[k]) =>
            /\ IsPrefix(CmdNames(StepsOf(k)), PlanOf(k))
            /\ \A j \in 1..(Len(StepsOf(k)) - 1) : StepsOf(k)[j].rc = "zero"
            /\ k <= Len(results) =>
                  (results[k] <=> /\ CmdNames(StepsOf(k)) = PlanOf(k)
                                  /\ AllZero(StepsOf(k)))

\* an image whose pull exited zero and whose tag did not: no push, failure;
\* and an image after it that ran its whole plan
C2_Witness ==
    \E k \in 1..Len(results), m \in 1..Len(results) :
        /\ k < m
        /\ CmdNames(StepsOf(k)) = <<"pull", "tag">>
        /\ StepsOf(k)[2].rc = "nonzero"
        /\ ~results[k]
        /\ results[m]

\* C3: an image without ':' returns failure with no external command for
\* it; in a batch it ends in fail_list, never in success_list, and the
\* images after it are still attempted.
C3_FormatError ==
    \A k \in 1..Len(images) :
        ~HasTagSeparator(images[k]) =>
            /\ CmdsOf(k) = <<>>
            /\ k <= Len(results) => ~results[k]
            /\ Returned =>
                  /\ k <= Len(results)
                  /\ \E j \in 1..Len(fail_list) : fail_list[j] = images[k]
                  /\ \A m \in (k + 1)..Len(images) :
                        \E j \in 1..Len(attempts) : attempts[j] = m

\* a returned batch with an image without ':' before one that succeeded
C3_Witness ==
    /\ Returned
    /\ \E k \in 1..Len(images), m \in 1..Len(images) :
          /\ k < m
          /\ ~HasTagSeparator(images[k])
          /\ results[m]
          /\ fail_list = <<images[k]>>

\* the image the worker is past the pull decision of
PullDecided(k) ==
    /\ HasTagSeparator(images[k])
    /\ \/ k <= Len(results)
       \/ k = i /\ pc \in {"tag", "push"}

\* C4: the pull of an image is skipped exactly when use_local is set and
\* the inspection exited zero; without use_local nothing is inspected; an
\* inspection that exits non-zero, times out, raises or cannot be started
\* leads to the pull and never fails the image or ends the run.
C4_CacheSkip ==
    /\ \A k \in 1..Len(images) :
          /\ Len(InspectsOf(k)) <= 1
          /\ PullDecided(k) =>
                ((\A j \in 1..Len(StepsOf(k)) : StepsOf(k)[j].cmd # "pull")
                 <=> /\ use_local
                     /\ InspectsOf(k) # <<>>
                     /\ InspectsOf(k)[1].rc = "zero")
    /\ ~use_local => \A j \in 1..Len(cmds) : cmds[j].cmd # "inspect"
    /\ \A j \in 1..Len(cmds) :
          (j = Len(cmds) /\ cmds[j].cmd = "inspect" /\ cmds[j].rc # "zero")
          => (pc = "pull" /\ i = cmds[j].img /\ Len(results) = i - 1)

\* an inspection that raised, followed by the pull of the same image, which
\* then succeeded; and an inspection that exited zero, with no pull
C4_Witness ==
    \E k \in 1..Len(results), m \in 1..Len(results) :
        /\ InspectsOf(k) # <<>> /\ InspectsOf(k)[1].rc = "raise"
        /\ CmdNames(StepsOf(k)) = <<"pull", "tag", "push">>
        /\ results[k]
        /\ InspectsOf(m) # <<>> /\ InspectsOf(m)[1].rc = "zero"
        /\ CmdNames(StepsOf(m)) = <<"tag", "push">>
        /\ results[m]

\* the run is a repetition of a run that pulled and pushed every image
Repeated == run = "rerun" /\ Returned
NoPull == \A j \in 1..Len(cmds) : cmds[j].cmd # "pull"

\* C5 as stated: a repetition with use_local of a batch that went through
\* completely runs no pull and reports every image in success_list.
C5_Idempotent ==
    Repeated => /\ NoPull
                /\ success_list = images
                /\ fail_list = <<>>

\* C5, amended: in such a repetition every image is inspected and the pull
\* of every image whose inspection exits zero is skipped; when every
\* command of the repetition exits zero, no pull is run at all and every
\* image is in success_list.
C5_IdempotentWhenCommandsSucceed ==
    Repeated =>
        /\ use_local
        /\ \A k \in 1..Len(images) :
              /\ Len(InspectsOf(k)) = 1
              /\ InspectsOf(k)[1].rc = "zero" =>
                    \A j \in 1..Len(cmds) :
                        ~(cmds[j].img = k /\ cmds[j].cmd = "pull")
        /\ AllZero(cmds) => /\ NoPull
                            /\ success_list = images
                            /\ fail_list = <<>>

\* a repetition of two images in which every command exited zero
C5_Witness ==
    /\ Repeated
    /\ Len(images) = 2
    /\ AllZero(cmds)
    /\ CmdNames(cmds) = <<"inspect", "tag", "push", "inspect", "tag", "push">>
    /\ success_list = images

------------------------------------------------------------------------------
\* Properties of the login

\* the credential is complete: sync_images logs in with it when it decides to
HasLogin ==
    /\ docker_auth # <<>>
    /\ docker_auth[1].username # <<>>
    /\ docker_auth[1].password # <<>>

\* sync_images is past its login decision
PastLoginDecision ==
    /\ platform # None
    /\ pc \in {"for_img", "inspect", "pull", "tag", "push", "returned", "done"}

LoginRun == \E j \in 1..Len(cmds) : cmds[j].cmd = "login"

\* the three names of Docker Hub count as one registry
SameRegistry(a, b) ==
    \/ a = b
    \/ a \in {DOCKER_IO, INDEX_DOCKER_IO, REGISTRY_1_DOCKER_IO}
       /\ b \in {DOCKER_IO, INDEX_DOCKER_IO, REGISTRY_1_DOCKER_IO}

\* C6: with a credential for "docker.io", sync_images logs in when any image
\* of the batch resolves to "docker.io", "index.docker.io" or
\* "registry-1.docker.io"; it runs no login when no image of the batch
\* resolves to the credential's registry.
C6_LoginDecision ==
    HasLogin =>
        /\ (/\ docker_auth[1].registry = DOCKER_IO
            /\ \E k \in 1..Len(images) :
                  get_image_registry(images[k])
                     \in {DOCKER_IO, INDEX_DOCKER_IO, REGISTRY_1_DOCKER_IO}
            /\ PastLoginDecision)
           => LoginRun
        /\ (\A k \in 1..Len(images) :
               ~SameRegistry(get_image_registry(images[k]),
                             auth_registry_of(docker_auth[1])))
           => (~LoginRun /\ pc # "docker_login")

\* C7: the login is attempted at most once and before anything is done for
\* an image; whatever its outcome the run goes on: it does not raise, every
\* image is attempted, and each image's result depends on its own commands
\* only.
C7_LoginNonFatal ==
    /\ \A j \in 1..Len(cmds) : cmds[j].cmd = "login" => j = 1
    /\ pc = "docker_login" => (cmds = <<>> /\ attempts = <<>>)
    /\ LoginRun =>
          /\ pc \notin {"raised", "docker_login"}
          /\ tasks[task_id].status # "error"
          /\ pc \in {"returned", "done"} => Len(attempts) = Len(images)
          /\ \A k \in 1..Len(results) :
                results[k] <=> /\ HasTagSeparator(images[k])
                               /\ CmdNames(StepsOf(k)) = PlanOf(k)
                               /\ AllZero(StepsOf(k))

\* a login that timed out, after which one image succeeded and one failed
C7_Witness ==
    /\ Returned
    /\ cmds # <<>>
    /\ cmds[1].cmd = "login"
    /\ cmds[1].rc = "timeout"
    /\ results = <<TRUE, FALSE>>

\* C8: "arm" resolves to linux/arm64 and "amd64" to linux/amd64; any other
\* architecture makes sync_images raise before it logs a line or runs a
\* command, and the task ends in status "error" with empty lists.
C8_UnknownArchitecture ==
    /\ platform # None =>
          \/ arch = "arm" /\ platform = "linux/arm64"
          \/ arch = "amd64" /\ platform = "linux/amd64"
    /\ \A j \in 1..Len(cmds) : cmds[j].cmd = "pull" => cmds[j].platform = platform
    /\ arch \in {"arm", "amd64"} =>
          (pc \notin {"task_start", "sync_images"} => platform # None)
    /\ arch \notin {"arm", "amd64"} =>
          /\ pc \in {"task_start", "sync_images", "raised", "done"}
          /\ all_messages = <<>>
          /\ cmds = <<>>
          /\ attempts = <<>>
          /\ pc # "done" => output_queue = <<>>
          /\ pc = "done" =>
                /\ tasks[task_id].status = "error"
                /\ tasks[task_id].success_list = <<>>
                /\ tasks[task_id].fail_list = <<>>
                /\ output_queue = <<[t |-> "error"], EndMarker>>

\* a task that ended in error for a batch and a credential that would have
\* run commands
C8_Witness ==
    /\ arch = "x86"
    /\ pc = "done"
    /\ tasks[task_id].status = "error"
    /\ images # <<>>
    /\ HasLogin

------------------------------------------------------------------------------
\* Properties of the names

\* position of the last c in s, 0 when there is none
LastIndexOf(s, c) ==
    IF Contains(s, c)
    THEN CHOOSE k \in 1..Len(s) : s[k] = c /\ \A j \in (k + 1)..Len(s) : s[j] # c
    ELSE 0

\* the tag of a reference and its repository part: what follows and what
\* precedes the last ':'
TagOf(s) == SubSeq(s, LastIndexOf(s, ":") + 1, Len(s))
RepositoryPart(s) == SubSeq(s, 1, LastIndexOf(s, ":") - 1)
\* the last ':' is a tag separator when no '/' follows it
HasTag(s) == Contains(s, ":") /\ ~Contains(TagOf(s), "/")
ExpectedTarget(s, r) ==
    r \o <<"/">> \o Last(Split(RepositoryPart(s), "/")) \o <<":">> \o TagOf(s)

\* C9: for a source with a tag, the reference that is tagged and pushed is
\* targetRepo/shortName:tag, shortName the last '/'-segment of the
\* repository part and tag the source's tag, also when the registry host
\* carries a port.
C9_TargetRef ==
    \A j \in 1..Len(cmds) :
        /\ (cmds[j].cmd = "tag" /\ HasTag(images[cmds[j].img]))
           => cmds[j].dst = ExpectedTarget(images[cmds[j].img], repo)
        /\ (cmds[j].cmd = "push" /\ HasTag(images[cmds[j].img]))
           => cmds[j].ref = ExpectedTarget(images[cmds[j].img], repo)

\* s is a word: not empty, without '/' and ':'
IsWord(s) == s # <<>> /\ ~Contains(s, "/") /\ ~Contains(s, ":")
\* s is a registry host: a word, or a word, ':' and a port
IsHost(s) ==
    \/ IsWord(s)
    \/ /\ Len(Split(s, ":")) = 2
       /\ IsWord(Split(s, ":")[1])
       /\ IsWord(Split(s, ":")[2])
\* s is repo/ns/image:tag
IsRepoNsImageTag(s) ==
    /\ Len(Split(s, "/")) = 3
    /\ IsHost(Split(s, "/")[1])
    /\ IsWord(Split(s, "/")[2])
    /\ Len(Split(Split(s, "/")[3], ":")) = 2
    /\ IsWord(Split(Split(s, "/")[3], ":")[1])
    /\ IsWord(Split(Split(s, "/")[3], ":")[2])

\* C10: for a valid repo/ns/image:tag, parse_image_name returns registry
\* repo, namespace ns and repository image when repo contains '.' or ':',
\* and registry "docker.io" otherwise.
C10_ParseRegistry ==
    (fn_result.fn = "parse_image_name" /\ IsRepoNsImageTag(image_name)) =>
        LET segs == Split(image_name, "/")
        IN  IF Contains(segs[1], ".") \/ Contains(segs[1], ":")
            THEN /\ fn_result.parsed.registry = segs[1]
                 /\ fn_result.parsed.namespace = segs[2]
                 /\ fn_result.parsed.image = Split(segs[3], ":")[1]
            ELSE fn_result.parsed.registry = DOCKER_IO

\* the name without its tag
NameOf(s) == IF HasTag(s) THEN RepositoryPart(s) ELSE s

\* C11: when the first '/'-segment of the name is not a registry host (no
\* '.', no ':'), parse_image_name returns namespace segment 1 and
\* repository segment 2 for exactly two segments; for three or more it
\* returns namespace "library" and all segments, rejoined with '/', as the
\* repository.
C11_ParseNamespace ==
    LET segs == Split(NameOf(image_name), "/")
    IN  (/\ fn_result.fn = "parse_image_name"
         /\ ~Contains(NameOf(image_name), ":")
         /\ ~Contains(segs[1], ".")
         /\ Len(segs) >= 2)
        => IF Len(segs) = 2
           THEN /\ fn_result.parsed.namespace = segs[1]
                /\ fn_result.parsed.image = segs[2]
           ELSE /\ fn_result.parsed.namespace = LIBRARY
                /\ fn_result.parsed.image = Join(segs, "/")

------------------------------------------------------------------------------
\* Properties of the search operations

\* the requests of the call that went to an endpoint
RequestsTo(endpoint) ==
    SelectSeq(s_requests, LAMBDA r : r.endpoint = endpoint)

\* the response is not a well-formed 200
Failed(resp) == resp.raised \/ resp.status # 200 \/ ~resp.json

RECURSIVE Delivered(_)
\* the named tags of the pages of reqs, in the order they were delivered
Delivered(reqs) ==
    IF reqs = <<>> THEN <<>>
    ELSE Delivered(SubSeq(reqs, 1, Len(reqs) - 1))
         \o SelectSeq(reqs[Len(reqs)].resp.names, LAMBDA n : n # 0)

\* C12: the Docker Hub tag search requests pages 1, 2, ... and at most 10 of
\* them; it requests a page only while fewer than limit tags are accumulated
\* and only after a page that reported a next cursor; when it returns
\* successfully, the tags are the first limit named tags in the order the
\* pages delivered them.
C12_Pagination ==
    LET pages == RequestsTo("hub_tags")
    IN  /\ Len(pages) <= 10
        /\ \A j \in 1..Len(pages) :
             /\ pages[j].page = j
             /\ Len(Delivered(SubSeq(pages, 1, j - 1))) < s_limit
             /\ j > 1 => /\ ~Failed(pages[j - 1].resp)
                         /\ pages[j - 1].resp.next
        /\ (s_pc = "done" /\ s_call.fn = "hub_loop" /\ s_result.success)
           => /\ Len(s_result.tags) <= s_limit
              /\ \E n \in 0..s_limit :
                   /\ n <= Len(Delivered(pages))
                   /\ n < s_limit => n = Len(Delivered(pages))
                   /\ s_result.tags = SubSeq(Delivered(pages), 1, n)

\* the search stopped at the page cap with a next cursor and limit not reached
C12_Witness ==
    /\ s_pc = "done"
    /\ s_call.fn = "hub_loop"
    /\ Len(s_requests) = 10
    /\ s_result.success
    /\ s_requests[10].resp.next
    /\ Len(s_result.tags) > 1
    /\ Len(s_result.tags) < s_limit

\* the registry string carries no scheme
NoScheme(registry) ==
    /\ ~StartsWith(registry, HTTP_SCHEME)
    /\ ~StartsWith(registry, HTTPS_SCHEME)

\* C13: the generic registry search sends its first request to the registry
\* over https (or the scheme the registry string carries); a second request,
\* over http, follows if and only if the first response has a status outside
\* {200, 401, 404} and the registry string carries no scheme; there are never
\* more than two requests; a last response with a status other than 200
\* gives success=false, a well-formed 200 gives success=true.
C13_HttpFallback ==
    LET reqs == RequestsTo("registry_v2")
    IN  /\ Len(reqs) <= 2
        /\ reqs # <<>>
           => reqs[1].base = IF NoScheme(s_call.registry)
                             THEN HTTPS_SCHEME \o s_call.registry
                             ELSE s_call.registry
        /\ (s_pc = "done" /\ reqs # <<>>)
           => /\ Len(reqs) = 2
                 <=> /\ ~reqs[1].resp.raised
                     /\ reqs[1].resp.status \notin {200, 401, 404}
                     /\ NoScheme(s_call.registry)
              /\ Len(reqs) = 2
                 => reqs[2].base = HTTP_SCHEME \o s_call.registry
              /\ LET last == reqs[Len(reqs)].resp
                 IN  /\ (~last.raised /\ last.status # 200)
                        => ~s_result.success
                     /\ ~Failed(last) => s_result.success

\* the registry argument names something other than Docker Hub
OtherRegistry ==
    /\ s_registry # <<>>
    /\ s_registry[1] \notin {DOCKER_IO, REGISTRY_1_DOCKER_IO, HUB_DOCKER_COM}

\* C14: search_image_tags goes to the generic Registry v2 endpoint only when
\* a registry argument is supplied and is not docker.io, registry-1.docker.io
\* or hub.docker.com; otherwise the search goes to Docker Hub and every
\* request carries the caller's credential, whatever the image name is.
C14_Dispatch ==
    s_op = "search_image_tags"
    => /\ OtherRegistry
          \/ /\ s_pc \notin {"search_registry_tags", "try_http"}
             /\ \A j \in 1..Len(s_requests) :
                  /\ s_requests[j].endpoint = "hub_tags"
                  /\ s_requests[j].auth = s_auth
       /\ ~OtherRegistry
          \/ \A j \in 1..Len(s_requests) :
               s_requests[j].endpoint = "registry_v2"

\* the list a result carries
ListOf(result) ==
    IF s_op = "search_docker_hub_images" THEN result.images ELSE result.tags

\* C15: every search operation returns a record with success and its list;
\* when the last response is a network failure, a 404, another non-200
\* status or malformed JSON, the record has success=false, an empty list and
\* a non-empty error; no request is sent twice.
C15_StructuredFailure ==
    /\ s_pc = "done"
       => /\ "success" \in DOMAIN s_result
          /\ (IF s_op = "search_docker_hub_images" THEN "images" ELSE "tags")
             \in DOMAIN s_result
          /\ (s_requests # <<>> /\ Failed(s_requests[Len(s_requests)].resp))
             => /\ ~s_result.success
                /\ ListOf(s_result) = <<>>
                /\ "error" \in DOMAIN s_result
                /\ s_result.error # ""
    /\ \A j, k \in 1..Len(s_requests) :
         j < k => \/ s_requests[j].base # s_requests[k].base
                  \/ s_requests[j].path # s_requests[k].path
                  \/ s_requests[j].page # s_requests[k].page
    /\ \A j \in 1..(Len(s_requests) - 1) :
         Failed(s_requests[j].resp)
         => s_requests[j + 1].endpoint = "registry_v2"

\* a later page failed after tags had been accumulated: they are dropped
C15_Witness ==
    /\ s_pc = "done"
    /\ Len(s_requests) > 1
    /\ s_tags # <<>>
    /\ Failed(s_requests[Len(s_requests)].resp)
    /\ ~s_result.success
    /\ s_result.tags = <<>>

------------------------------------------------------------------------------
\* Properties of the command-line entry

\* C20: the process exits with a non-zero code if and only if
\* sync_single_image returned False for at least one image of the batch, and
\* with zero otherwise.
C20_ExitCode ==
    pc = "exited"
    => /\ Len(results) = Len(images)
       /\ exit_code # <<>>
       /\ exit_code[1] # 0 <=> \E k \in 1..Len(results) : ~results[k]
       /\ exit_code[1] = 0 <=> \A k \in 1..Len(results) : results[k]
       /\ exit_code[1] # 0 <=> fail_list # <<>>

\* a batch with one synced and one failed image has exited
C20_Witness ==
    /\ pc = "exited"
    /\ exit_code = <<1>>
    /\ success_list # <<>>
    /\ Len(fail_list) = 1
    /\ Len(images) = 3

------------------------------------------------------------------------------
\* Properties of the repository history

\* the stored list, as load_repo_history reads it
Stored == IF history_file.state = "list" THEN history_file.items ELSE <<>>

NoDuplicates(list) ==
    \A j, k \in 1..Len(list) : j # k => list[j] # list[k]

\* list without the entry r
Without(list, r) == SelectSeq(list, LAMBDA e : e # r)

\* list is r followed by the entries before, r left out, oldest cut off
MostRecentFirst(list, before, r) ==
    /\ list # <<>>
    /\ list[1] = r
    /\ Len(list) <= 20
    /\ \E n \in 0..19 :
         /\ n <= Len(Without(before, r))
         /\ n < 19 => n = Len(Without(before, r))
         /\ Tail(list) = SubSeq(Without(before, r), 1, n)

\* the string is empty after stripping blanks
Blank(raw) == \A k \in 1..Len(raw) : raw[k] = " "

\* C19: after any sequence of save_repo_to_history calls the stored list has
\* no duplicates and at most 20 entries, the last non-empty repository passed
\* is at its head, a call with a non-empty repository leaves that repository
\* in front of the earlier entries in their order, and a call with an empty
\* or whitespace-only repository leaves the list unchanged.
C19_History ==
    /\ NoDuplicates(Stored)
    /\ Len(Stored) <= 20
    /\ h_last # <<>> => (Stored # <<>> /\ Stored[1] = h_last[1])
    /\ h_call # <<>>
       => IF Blank(h_call[1].repo)
          THEN Stored = h_prev
          ELSE MostRecentFirst(Stored, h_prev, h_last[1])

\* C19 (amended): the stored list has no duplicates and at most 20 entries;
\* a call with a non-empty repository whose file write succeeds leaves that
\* repository at the head, in front of the earlier entries in their order; a
\* call with an empty or whitespace-only repository, and a call whose file
\* cannot be opened for writing, leave the list unchanged; a write that fails
\* after the file was opened leaves an empty list.
C19_HistoryWhenWritten ==
    /\ NoDuplicates(Stored)
    /\ Len(Stored) <= 20
    /\ h_call # <<>>
       => IF Blank(h_call[1].repo) \/ h_call[1].wrote = "open_raised"
          THEN Stored = h_prev
          ELSE IF h_call[1].wrote = "dump_raised"
          THEN Stored = <<>>
          ELSE MostRecentFirst(Stored, h_prev, h_last[1])

\* the first repository was saved again, padded with blanks, when the list
\* was full and no longer held it
C19_Witness ==
    /\ h_call # <<>>
    /\ h_call[1].wrote = "written"
    /\ h_call[1].repo = <<" ", "r", " ">>
    /\ Len(h_prev) = 20
    /\ Len(Stored) = 20
    /\ \A k \in 1..Len(h_prev) : h_prev[k] # <<"r">>
    /\ Stored[1] = <<"r">>

------------------------------------------------------------------------------
\* Properties of the sync requests

\* the request passed validation
Accepted(r) == sync_pc[r] \notin {"idle", "received", "rejected"}

\* the progress events and the terminal events of a stream
Progress(r) == SelectSeq(stream[r], LAMBDA e : e.type = "output")
Terminal(r) == SelectSeq(stream[r], LAMBDA e : e.type = "status")

\* the lines the progress events of a stream carry
Delivery(r) == [k \in 1..Len(Progress(r)) |-> Progress(r)[k].line]

\* C16: the progress events of an accepted request are the lines its worker
\* wrote, in the order written; there is at most one terminal event, it is
\* the last event, it comes when every line written has been delivered, and
\* it carries the lists the request's own sync_images run returned.
C16_EventStream ==
    \A r \in Requests :
      Accepted(r)
      => /\ IsPrefix(Delivery(r), written[r])
         /\ Len(Terminal(r)) <= 1
         /\ sync_pc[r] = "closed" <=> Terminal(r) # <<>>
         /\ Terminal(r) # <<>>
            => /\ stream[r][Len(stream[r])].type = "status"
               /\ Delivery(r) = written[r]
               /\ returned[r] # <<>>
               /\ Terminal(r)[1].success_list = returned[r][1].success_list
               /\ Terminal(r)[1].fail_list = returned[r][1].fail_list

\* C17: the statuses stored for a task are "running", then at most one of
\* "completed" and "error", and nothing after it; the lists of a task are
\* empty while it is running or in error; a worker that has put the end
\* marker has its task in a terminal status.
C17_TaskLifecycle ==
    /\ \A id \in DOMAIN tasks :
         /\ id \in DOMAIN statuses
         /\ statuses[id] \in {<<"running">>, <<"running", "completed">>,
                              <<"running", "error">>}
         /\ tasks[id].status = statuses[id][Len(statuses[id])]
         /\ tasks[id].status \in {"running", "error"}
            => /\ tasks[id].success_list = <<>>
               /\ tasks[id].fail_list = <<>>
    /\ \A r \in Requests :
         thread[r] = "finished"
         => /\ req_task_id[r] \in DOMAIN tasks
            /\ tasks[req_task_id[r]].status \in {"completed", "error"}

\* the posted body fails a check of sync()
Invalid(r) ==
    \/ \A k \in 1..Len(request[r].repo) : request[r].repo[k] = " "
    \/ request[r].images = <<>>
    \/ \E k \in 1..Len(request[r].images) :
         \A j \in 1..Len(request[r].images[k]) :
           request[r].images[k][j] # ":"

\* C18: a request with a blank repository, an empty image list or an image
\* without ':' is rejected and has no effect: it gets no task id, no worker
\* and no queue entry, and it touches neither the history nor the counter;
\* while no request has been accepted the counter, the registry and the
\* history are as at the start.
C18_RejectedBeforeEffect ==
    /\ \A r \in Requests :
         Invalid(r)
         => /\ sync_pc[r] \in {"received", "rejected"}
            /\ req_task_id[r] = 0
            /\ thread[r] = "none"
            /\ queues[r] = <<>>
            /\ written[r] = <<>>
            /\ stream[r] = <<>>
            /\ effects[r] = {}
    /\ (\A r \in Requests : ~Accepted(r))
       => /\ task_counter = 0
          /\ tasks = <<>>
          /\ history_file = [state |-> "missing", items |-> <<>>]

\* a request with an image without ':' was rejected while the other request
\* went through to its terminal event
C18_Witness ==
    /\ sync_pc[1] = "rejected"
    /\ Len(request[1].images) = 2
    /\ sync_pc[2] = "closed"
    /\ task_counter = 1
    /\ history_file.state = "list"

\* C22: two requests that were given a task id were given different ones, and
\* the entry of a task holds only what the worker of its own request stored:
\* the status that worker recorded last and the lines that worker wrote.
C22_DistinctTaskIds ==
    \A r1, r2 \in Requests :
      /\ (r1 # r2 /\ req_task_id[r1] # 0 /\ req_task_id[r2] # 0)
         => req_task_id[r1] # req_task_id[r2]
      /\ thread[r1] \in {"running", "finished"}
         => /\ req_task_id[r1] \in DOMAIN tasks
            /\ tasks[req_task_id[r1]].output = written[r1]
            /\ tasks[req_task_id[r1]].status =
                 IF returned[r1] = <<>> THEN "running"
                 ELSE returned[r1][1].status

\* the worker has just put the end marker: it is the last entry of the queue
MarkerPut(r) ==
    /\ thread[r] = "finished"
    /\ queues[r] # <<>>
    /\ queues[r][Len(queues[r])] = EndMarker

\* the generator waits on an empty queue that nothing will be put on
WaitingForNothing(r) ==
    /\ sync_pc[r] = "streaming"
    /\ thread[r] = "finished"
    /\ queues[r] = <<>>

\* C24: when every thread is scheduled and every command terminates, the
\* worker of every accepted request puts the end marker on its queue, the
\* generator of the request emits its terminal event and stops, and the
\* generator is never left waiting with the worker finished and the queue
\* empty.
C24_Termination ==
    /\ \A r \in Requests :
         (Accepted(r) /\ thread[r] # "finished") ~> MarkerPut(r)
    /\ \A r \in Requests :
         Accepted(r) ~> (sync_pc[r] = "closed" /\ Terminal(r) # <<>>)
    /\ [][\A r \in Requests :
           /\ sync_pc[r] = "closed"
              => (sync_pc'[r] = "closed" /\ stream'[r] = stream[r])
           /\ ~WaitingForNothing(r)
           /\ ~WaitingForNothing(r)']_vars

\* both streams have ended, one after sync_images returned and one after it
\* raised
C24_Witness ==
    /\ sync_pc[1] = "closed"
    /\ sync_pc[2] = "closed"
    /\ returned[1] # <<>>
    /\ returned[2] # <<>>
    /\ returned[1][1].status = "completed"
    /\ returned[2][1].status = "error"
    /\ queues[1] = <<>>
    /\ queues[2] = <<>>

------------------------------------------------------------------------------
\* Properties of the log of a sync_images run

\* the positions of the sink that hold a line of an image, and a report
ImageLines == {j \in 1..Len(output_queue) : "img" \in DOMAIN output_queue[j]}
ReportLines == {j \in 1..Len(output_queue) : output_queue[j].t = "report"}

\* C23: in the sink the lines of image i come before the lines of image
\* i+1; the report is sent at most once and, once sync_images has returned,
\* exactly once; it comes after every line of every image, and its two lists
\* together have as many entries as the batch has images.
C23_LogOrder ==
    /\ \A j, k \in ImageLines :
         j < k => output_queue[j].img <= output_queue[k].img
    /\ Cardinality(ReportLines) <= 1
    /\ (\/ pc = "returned"
        \/ pc = "done" /\ tasks[task_id].status = "completed")
       => Cardinality(ReportLines) = 1
    /\ \A j \in ReportLines :
         /\ \A k \in ImageLines : k < j
         /\ \A k \in 1..Len(images) :
              \E n \in ImageLines : output_queue[n].img = k
         /\ Len(output_queue[j].ok) + Len(output_queue[j].failed)
              = Len(images)

\* the report of a batch of three follows the lines of a failed pull, a
\* format error and a complete sync
C23_Witness ==
    /\ pc = "returned"
    /\ Len(images) = 3
    /\ ReportLines # {}
    /\ \E j \in ImageLines : output_queue[j].t = "format_error"
    /\ \E j \in ImageLines :
         output_queue[j].t = "out" /\ output_queue[j].cmd = "push"
    /\ Len(success_list) = 1
    /\ Len(fail_list) = 2

------------------------------------------------------------------------------
\* Where the password of docker_auth goes

\* the string p occurs in the string s
Occurs(p, s) ==
    /\ p # <<>>
    /\ \E k \in 1..(Len(s) - Len(p) + 1) : SubSeq(s, k, k + Len(p) - 1) = p

\* the strings a command line is built from, and those a log line is built from
CommandTexts(c) ==
    (IF "argv" \in DOMAIN c THEN {c.argv[k] : k \in 1..Len(c.argv)} ELSE {})
    \cup (IF "ref" \in DOMAIN c THEN {c.ref} ELSE {})
    \cup (IF "dst" \in DOMAIN c THEN {c.dst} ELSE {})
LineTexts(l) ==
    (IF "registry" \in DOMAIN l THEN {l.registry} ELSE {})
    \cup (IF "text" \in DOMAIN l THEN {l.text} ELSE {})
    \cup (IF "ok" \in DOMAIN l
          THEN {l.ok[k] : k \in 1..Len(l.ok)}
               \cup {l.failed[k] : k \in 1..Len(l.failed)}
          ELSE {})
SecretInLines(secret, lines) ==
    \E j \in 1..Len(lines) : \E x \in LineTexts(lines[j]) : Occurs(secret, x)

\* the positions of cmds that hold a docker login
LoginCommands == {j \in 1..Len(cmds) : cmds[j].cmd = "login"}

\* C21: the password of docker_auth is the standard input of the docker login
\* command and occurs in no argument of any command, in no line of the sink,
\* of the returned messages or of the task's stored output; the arguments of
\* docker login and the lines it logs are those a run with any other
\* password gets when docker login ends the same way and prints the same
C21_SecretConfined ==
    (docker_auth # <<>> /\ docker_auth[1].password # <<>>)
    => LET secret == docker_auth[1].password
       IN  /\ \A j \in 1..Len(cmds) :
                 \A x \in CommandTexts(cmds[j]) : ~Occurs(secret, x)
           /\ \A j \in LoginCommands : cmds[j].stdin = secret
           /\ \A j \in 1..Len(cmds) :
                 "stdin" \in DOMAIN cmds[j] => j \in LoginCommands
           /\ ~SecretInLines(secret, output_queue)
           /\ ~SecretInLines(secret, all_messages)
           /\ task_id \in DOMAIN tasks
                => ~SecretInLines(secret, tasks[task_id].output)
           /\ \A j \in LoginCommands : \A other \in Secrets :
                 LET twin == [docker_auth[1] EXCEPT !.password = other]
                     lines == login_lines(twin, cmds[j].rc, cmds[j].answer)
                 IN  /\ j = 1
                     /\ cmds[j].argv = login_argv(twin)
                     /\ Len(output_queue) >= 1 + Len(lines)
                     /\ SubSeq(output_queue, 2, 1 + Len(lines)) = lines

\* docker login got the password, failed and printed a line, and the run
\* went on to push an image
C21_Witness ==
    /\ pc = "returned"
    /\ docker_auth # <<>>
    /\ docker_auth[1].password \in Secrets
    /\ Len(cmds) >= 2
    /\ cmds[1].cmd = "login"
    /\ cmds[1].stdin = docker_auth[1].password
    /\ cmds[1].rc = "nonzero"
    /\ cmds[1].answer # <<>>
    /\ \E j \in 1..Len(cmds) : cmds[j].cmd = "push"
    /\ \E j \in 1..Len(output_queue) : output_queue[j].t = "login_failed"

====
